---- MODULE Spec2Model ----
(***************************************************************************)
(* panic-message: recovering a text message from a panic payload.          *)
(*                                                                         *)
(* The library (src/src/lib.rs) is four pure entry points over one         *)
(* private extractor.  They are exercised here the way the crate's tests   *)
(* and doc examples exercise them: a guarded call (catch_unwind) panics    *)
(* with some value, an installed hook (tests/set_hook.rs) may inspect the  *)
(* PanicInfo, and the caller inspects the payload catch_unwind returns.    *)
(*                                                                         *)
(* A `dyn Any` value is a record [tag, val]: tag is its runtime type, val  *)
(* its content (a text for the two text types, a number for i32, the       *)
(* contained value for Box<dyn Any + Send>).  Option<T> is a sequence of   *)
(* length 0 (None) or 1 (Some).  A result variable is empty until the      *)
(* call that produces it has returned.                                     *)
(***************************************************************************)
EXTENDS Naturals, Sequences, FiniteSets

\* Deepest nesting of Box<dyn Any + Send> in a value handed to panic_any.
MaxDepth == 2
\* Non-text payloads are the integers 1..MaxInt (panic_any(1) in the tests).
MaxInt == 2

\* Message texts: the tests' literal, the empty text, and a text that
\* happens to equal the placeholder.
Texts == {"gus", "", "Box<dyn Any>"}

\* Runtime types (TypeId) of the values that occur.
StaticStr == "&'static str"
OwnedString == "String"
I32 == "i32"
BoxAny == "Box<dyn Any + Send>"

Str(t) == [tag |-> StaticStr, val |-> t]
String(t) == [tag |-> OwnedString, val |-> t]
Int(n) == [tag |-> I32, val |-> n]
Box(v) == [tag |-> BoxAny, val |-> v]

None == << >>
Some(x) == << x >>

\* The literal both total forms fall back to.
Placeholder == "Box<dyn Any>"

\* Values a guarded closure can panic with.
Base == {Str(t) : t \in Texts} \cup {String(t) : t \in Texts}
          \cup {Int(n) : n \in 1..MaxInt}

RECURSIVE Values(_)
Values(d) == IF d = 0 THEN Base
             ELSE Values(d - 1) \cup {Box(v) : v \in Values(d - 1)}

\* ------------------------------------------------------------------------
\* The library

\* <dyn Any>::downcast_ref::<T>(): Some(&T) iff the runtime type is T.
downcast_ref(p, T) == IF p.tag = T THEN Some(p) ELSE None

\* String::as_str(): a view of the owned buffer's text.
as_str(s) == s.val

\* *msg on a &&'static str: the text itself.
deref(s) == s.val

\* Option::unwrap_or(default)
unwrap_or(o, default) == IF o = None THEN default ELSE o[1]

\* as_ref that hands back the box itself, coerced to &dyn Any.
as_ref_coerced(b) == b

\* as_ref that keeps unwrapping while the contained value is a box.
RECURSIVE as_ref_deep(_)
as_ref_deep(b) == IF b.val.tag = BoxAny THEN as_ref_deep(b.val) ELSE b.val

\* Box<dyn Any + Send>::as_ref(): a reference to the contained value.
as_ref(b) == b.val

\* Extractor without the &'static str attempt.
imp_no_static_str(p) ==
    IF downcast_ref(p, OwnedString) # None
    THEN Some(as_str(downcast_ref(p, OwnedString)[1]))
    ELSE None

\* Extractor without the String attempt.
imp_no_string(p) ==
    IF downcast_ref(p, StaticStr) # None
    THEN Some(deref(downcast_ref(p, StaticStr)[1]))
    ELSE None

\* Extractor that also renders an integer payload as text.
imp_displays_integers(p) ==
    IF downcast_ref(p, StaticStr) # None
    THEN Some(deref(downcast_ref(p, StaticStr)[1]))
    ELSE IF downcast_ref(p, OwnedString) # None
         THEN Some(as_str(downcast_ref(p, OwnedString)[1]))
         ELSE IF downcast_ref(p, I32) # None THEN Some("1") ELSE None

\* Extractor that looks through a box it is handed.
imp_looks_through_box(p) ==
    LET q == IF p.tag = BoxAny THEN p.val ELSE p
    IN  IF q.tag \in {StaticStr, OwnedString} THEN Some(q.val) ELSE None

\* imp::get_panic_message(payload: &dyn Any) -> Option<&str>
imp_get_panic_message(p) ==
    IF downcast_ref(p, StaticStr) # None
    THEN Some(deref(downcast_ref(p, StaticStr)[1]))
    ELSE IF downcast_ref(p, OwnedString) # None
         THEN Some(as_str(downcast_ref(p, OwnedString)[1]))
         ELSE None

\* panic_message falling back to the literal older compilers printed.
panic_message_old_literal(p) ==
    unwrap_or(imp_get_panic_message(as_ref(p)), "Box<Any>")

\* panic_message(payload: &Box<dyn Any + Send>) -> &str
panic_message(p) == unwrap_or(imp_get_panic_message(as_ref(p)), Placeholder)

\* get_panic_message(payload: &Box<dyn Any + Send>) -> Option<&str>
get_panic_message(p) == imp_get_panic_message(as_ref(p))

\* PanicInfo::payload(): the bare &dyn Any the panic was raised with.
PanicInfo_payload(pi) == pi.payload

\* panic_info_message falling back to the empty text (unwrap_or_default).
panic_info_message_default_empty(pi) ==
    unwrap_or(imp_get_panic_message(PanicInfo_payload(pi)), "")

\* panic_info_message(panic_info: &PanicInfo) -> &str
panic_info_message(pi) ==
    unwrap_or(imp_get_panic_message(PanicInfo_payload(pi)), Placeholder)

\* get_panic_info_message that unwraps a boxed payload first.
get_panic_info_message_unwrapping(pi) ==
    IF PanicInfo_payload(pi).tag = BoxAny
    THEN imp_get_panic_message(as_ref(PanicInfo_payload(pi)))
    ELSE imp_get_panic_message(PanicInfo_payload(pi))

\* get_panic_info_message(panic_info: &PanicInfo) -> Option<&str>
get_panic_info_message(pi) == imp_get_panic_message(PanicInfo_payload(pi))

\* The parameter type of the payload-path entry points, &Box<dyn Any + Send>:
\* an argument is accepted iff it is a reference to such a box.
Accepts(a) == a.tag = BoxAny

\* ------------------------------------------------------------------------
\* The callers

VARIABLES
    pc,        \* position of the test thread
    hook,      \* "default" or "user" (set_hook called)
    CALLED,    \* the AtomicBool of tests/set_hook.rs
    expected,  \* the literal the test asserts against
    thrown,    \* Some(value the closure panicked with)
    info,      \* Some(PanicInfo delivered to the hook)
    info_msg,  \* Some(result of panic_info_message) once called
    info_opt,  \* Some(result of get_panic_info_message) once called
    payload,   \* Some(the Box catch_unwind returned as Err)
    arg,       \* Some(what the caller passes to the payload path)
    msg,       \* Some(result of panic_message) once called
    opt        \* Some(result of get_panic_message) once called

vars == << pc, hook, CALLED, expected, thrown, info, info_msg, info_opt,
           payload, arg, msg, opt >>

Init ==
    /\ pc = "start"
    /\ hook = "default"
    /\ CALLED = FALSE
    /\ expected \in Texts
    /\ thrown = None
    /\ info = None
    /\ info_msg = None
    /\ info_opt = None
    /\ payload = None
    /\ arg = None
    /\ msg = None
    /\ opt = None

\* set_hook(Box::new(|pi| { ... }))
SetHook ==
    /\ pc = "start"
    /\ hook' = "user"
    /\ pc' = "guarded"
    /\ UNCHANGED << CALLED, expected, thrown, info, info_msg, info_opt,
                    payload, arg, msg, opt >>

\* catch_unwind(|| ...) entered with the default hook in place (lib.rs tests)
Guard ==
    /\ pc = "start"
    /\ pc' = "guarded"
    /\ UNCHANGED << hook, CALLED, expected, thrown, info, info_msg, info_opt,
                    payload, arg, msg, opt >>

\* A panic that unwinds without invoking the installed hook.
Raise_skips_hook(v) ==
    /\ pc = "guarded"
    /\ thrown' = Some(v)
    /\ info' = Some([payload |-> v])
    /\ pc' = "unwinding"
    /\ UNCHANGED << hook, CALLED, expected, info_msg, info_opt,
                    payload, arg, msg, opt >>

\* The closure panics with value v; the runtime builds the PanicInfo and
\* invokes the hook before unwinding.
Raise(v) ==
    /\ pc = "guarded"
    /\ thrown' = Some(v)
    /\ info' = Some([payload |-> v])
    /\ pc' = IF hook = "user" THEN "hook_total" ELSE "unwinding"
    /\ UNCHANGED << hook, CALLED, expected, info_msg, info_opt,
                    payload, arg, msg, opt >>

\* panic!("gus"): the payload is the &'static str literal.
PanicLiteral == \E t \in Texts : Raise(Str(t))

\* None::<()>.expect(&format!(..)), panic!("{}", ..): the payload is a String.
PanicFormatted == \E t \in Texts : Raise(String(t))

\* std::panic::panic_any(v): the payload is v itself.
PanicAny == \E v \in Values(MaxDepth) : Raise(v)

\* hook: assert_eq!("gus", panic_info_message(pi)); a failed assert in the
\* hook aborts the process.
HookAssertTotal ==
    /\ pc = "hook_total"
    /\ info_msg' = Some(panic_info_message(info[1]))
    /\ pc' = IF panic_info_message(info[1]) = expected
             THEN "hook_partial" ELSE "aborted"
    /\ UNCHANGED << hook, CALLED, expected, thrown, info, info_opt,
                    payload, arg, msg, opt >>

\* hook: assert_eq!(Some("gus"), get_panic_info_message(pi));
HookAssertPartial ==
    /\ pc = "hook_partial"
    /\ info_opt' = Some(get_panic_info_message(info[1]))
    /\ pc' = IF get_panic_info_message(info[1]) = Some(expected)
             THEN "hook_store" ELSE "aborted"
    /\ UNCHANGED << hook, CALLED, expected, thrown, info, info_msg,
                    payload, arg, msg, opt >>

\* hook: CALLED.store(true, SeqCst); the hook returns and unwinding starts.
HookStore ==
    /\ pc = "hook_store"
    /\ CALLED' = TRUE
    /\ pc' = "unwinding"
    /\ UNCHANGED << hook, expected, thrown, info, info_msg, info_opt,
                    payload, arg, msg, opt >>

\* catch_unwind(..).unwrap_err(): the panic value comes back boxed.
CatchUnwind ==
    /\ pc = "unwinding"
    /\ payload' = Some(Box(thrown[1]))
    /\ pc' = "caught"
    /\ UNCHANGED << hook, CALLED, expected, thrown, info, info_msg, info_opt,
                    arg, msg, opt >>

\* The caller writes the argument of the payload-path calls: &payload (the
\* container) or the contained value (payload.as_ref()).  The second is not
\* a &Box<dyn Any + Send> unless the contained value is itself such a box,
\* and is then refused by the parameter type.
PassArg(a) ==
    /\ pc = "caught"
    /\ arg' = Some(a)
    /\ pc' = IF Accepts(a) THEN "call" ELSE "type_error"
    /\ UNCHANGED << hook, CALLED, expected, thrown, info, info_msg, info_opt,
                    payload, msg, opt >>

PassContainer == PassArg(payload[1])

PassContained == PassArg(as_ref(payload[1]))

\* let msg = panic_message(&payload);
PanicMessage ==
    /\ pc = "call"
    /\ msg = None
    /\ msg' = Some(panic_message(arg[1]))
    /\ UNCHANGED << pc, hook, CALLED, expected, thrown, info, info_msg,
                    info_opt, payload, arg, opt >>

\* let msg = get_panic_message(&payload);
GetPanicMessage ==
    /\ pc = "call"
    /\ opt = None
    /\ opt' = Some(get_panic_message(arg[1]))
    /\ UNCHANGED << pc, hook, CALLED, expected, thrown, info, info_msg,
                    info_opt, payload, arg, msg >>

\* assert_eq!("gus", msg);
AssertMsg ==
    /\ pc = "call"
    /\ msg # None
    /\ pc' = IF msg[1] # expected THEN "failed"
             ELSE IF hook = "user" THEN "assert_called" ELSE "passed"
    /\ UNCHANGED << hook, CALLED, expected, thrown, info, info_msg, info_opt,
                    payload, arg, msg, opt >>

\* assert!(CALLED.load(SeqCst));
AssertCalled ==
    /\ pc = "assert_called"
    /\ pc' = IF CALLED THEN "passed" ELSE "failed"
    /\ UNCHANGED << hook, CALLED, expected, thrown, info, info_msg, info_opt,
                    payload, arg, msg, opt >>

Next ==
    \/ SetHook
    \/ Guard
    \/ PanicLiteral
    \/ PanicFormatted
    \/ PanicAny
    \/ HookAssertTotal
    \/ HookAssertPartial
    \/ HookStore
    \/ CatchUnwind
    \/ PassContainer
    \/ PassContained
    \/ PanicMessage
    \/ GetPanicMessage
    \/ AssertMsg
    \/ AssertCalled

Spec == Init /\ [][Next]_vars

\* ------------------------------------------------------------------------
\* Properties

TextTypes == {StaticStr, OwnedString}

\* The container catch_unwind returned is what the caller passed.
ContainerPassed == arg # None /\ arg = payload

\* The payload-path call has been attempted and the caller has moved on.
Finished == pc \in {"type_error", "assert_called", "passed", "failed"}

\* A further normalization attempt on a working reference: downcast to the
\* container type and, on a match, unwrap.
SecondAttempt(r) == IF downcast_ref(r, BoxAny) # None THEN as_ref(r) ELSE r

\* C1: a payload whose value is a &'static str t gives t from panic_message
\* and Some(t) from get_panic_message.
C1_StaticStrPayload ==
    \A t \in Texts :
        (thrown = Some(Str(t)) /\ ContainerPassed) =>
            /\ (msg # None => msg[1] = t)
            /\ (opt # None => opt[1] = Some(t))

C1_Witness ==
    /\ thrown = Some(Str(""))
    /\ ContainerPassed
    /\ msg = Some("")
    /\ opt = Some(Some(""))

\* C2: a payload whose value is a String with content t gives t from
\* panic_message and Some(t) from get_panic_message.
C2_StringPayload ==
    \A t \in Texts :
        (thrown = Some(String(t)) /\ ContainerPassed) =>
            /\ (msg # None => msg[1] = t)
            /\ (opt # None => opt[1] = Some(t))

C2_Witness ==
    /\ thrown = Some(String("gus"))
    /\ ContainerPassed
    /\ msg = Some("gus")
    /\ opt = Some(Some("gus"))

\* C3: a payload whose value is of neither text type gives None from
\* get_panic_message and exactly "Box<dyn Any>" from panic_message.
C3_OtherPayload ==
    (thrown # None /\ thrown[1].tag \notin TextTypes /\ ContainerPassed) =>
        /\ (msg # None => msg[1] = "Box<dyn Any>")
        /\ (opt # None => opt[1] = None)

C3_Witness ==
    /\ thrown = Some(Int(1))
    /\ ContainerPassed
    /\ msg = Some("Box<dyn Any>")
    /\ opt = Some(None)

C5_HookThenPayload ==
    \A t \in Texts :
        (hook = "user" /\ thrown \in {Some(Str(t)), Some(String(t))}) =>
            /\ (info_msg # None => info_msg[1] = t)
            /\ (info_opt # None => info_opt[1] = Some(t))
            /\ (payload # None =>
                   CALLED /\ info_msg # None /\ info_opt # None)
            /\ (msg # None /\ ContainerPassed => msg[1] = t)

C5_Witness ==
    /\ hook = "user"
    /\ thrown = Some(Str("gus"))
    /\ CALLED
    /\ info_msg = Some("gus")
    /\ info_opt = Some(Some("gus"))
    /\ msg = Some("gus")
    /\ pc = "passed"

\* C6: on both paths the total form is the partial form with the
\* placeholder substituted for None.
C6_TotalIsPartialOrPlaceholder ==
    /\ (msg # None /\ opt # None) =>
           msg[1] = (IF opt[1] = None THEN "Box<dyn Any>" ELSE opt[1][1])
    /\ (info_msg # None /\ info_opt # None) =>
           info_msg[1] =
               (IF info_opt[1] = None THEN "Box<dyn Any>" ELSE info_opt[1][1])

C6_Witness ==
    /\ thrown = Some(Int(2))
    /\ info_msg = Some("Box<dyn Any>")
    /\ info_opt = Some(None)

\* C7: the extractor's result is present iff the value it is handed is a
\* &'static str or a String, and is then that value's text.
C7_ExtractorTwoShapes ==
    /\ info_opt # None =>
           /\ (info_opt[1] # None) <=> (thrown[1].tag \in TextTypes)
           /\ (info_opt[1] # None) => (info_opt[1][1] = thrown[1].val)
    /\ opt # None =>
           /\ (opt[1] # None) <=> (arg[1].val.tag \in TextTypes)
           /\ (opt[1] # None) => (opt[1][1] = arg[1].val.val)

C7_Witness ==
    /\ thrown = Some(String("gus"))
    /\ info_opt = Some(Some("gus"))
    /\ opt = Some(Some("gus"))

C9_ReportPathNoUnwrap ==
    /\ (thrown # None /\ thrown[1].tag = BoxAny) =>
           /\ (info_msg # None => info_msg[1] = "Box<dyn Any>")
           /\ (info_opt # None => info_opt[1] = None)
    /\ (info_opt # None /\ opt # None /\ ContainerPassed) => info_opt = opt
    /\ (info_msg # None /\ msg # None /\ ContainerPassed) => info_msg = msg

C9_Witness ==
    /\ thrown = Some(Box(Str("gus")))
    /\ info_msg = Some("Box<dyn Any>")
    /\ info_opt = Some(None)

\* C10: the payload path unwraps exactly one level: a payload holding a box
\* that holds a text gives None and "Box<dyn Any>", not the text.
C10_OneLevelOnly ==
    \A t \in Texts :
        (thrown \in {Some(Box(Str(t))), Some(Box(String(t)))}
            /\ ContainerPassed) =>
            /\ (msg # None => msg[1] = "Box<dyn Any>")
            /\ (opt # None => opt[1] = None)

C10_Witness ==
    /\ thrown = Some(Box(Str("gus")))
    /\ ContainerPassed
    /\ msg = Some("Box<dyn Any>")
    /\ opt = Some(None)

====
